---- MODULE Spec2Model ----
(***************************************************************************)
(* A model of flickypedia's filesystem task queue                          *)
(* (src/src/flickypedia/uploadr/fs_queue.py, AbstractFilesystemTaskQueue). *)
(*                                                                         *)
(* The shared state is the directory tree under base_dir: five             *)
(* directories, each a map from file name (the task id) to a file (its     *)
(* JSON content and its modification time).  Every process (worker loops   *)
(* running process_tasks, a caller running start_task, a caller polling    *)
(* read_task) advances by one filesystem call per step: os.listdir,        *)
(* os.path.getmtime, open, os.rename.  The code between two filesystem     *)
(* calls touches only the process's own memory and is part of the step     *)
(* of the call before it.                                                  *)
(*                                                                         *)
(* os.rename has its POSIX meaning: atomic, replacing an existing          *)
(* destination file, FileNotFoundError when the source is missing.         *)
(* The "time" field of an event is not modelled: no code reads it.         *)
(***************************************************************************)
EXTENDS Integers, Sequences, FiniteSets, TLC

\* Bounds of the model.
NumWorkers == 2
MaxTasks == 2
MaxCrashes == 1
MaxQueues == 3

Workers == 1..NumWorkers
Enqueuer == NumWorkers + 1
Poller == NumWorkers + 2
Procs == 1..(NumWorkers + 2)

\* File names are task ids: the k-th uuid4 drawn is the id k.
TaskIds == 1..MaxTasks

\* Python values that matter to json.dumps/json.load with the Datetime
\* encoder and decoder: a plain JSON value, a datetime, and a dict of the
\* shape {"type": "datetime.datetime", "value": ...}.
Payloads ==
    { [kind |-> "plain", value |-> "x"],
      [kind |-> "tagged_dict", value |-> "2001-02-03T04:05:06"] }

\* Messages of the exceptions a task handler raises.
Messages == {"disk full"}

\* read_task probing the scratch directory after the state directories.
ReadOrderWithTmp == <<"waiting", "in_progress", "failed", "completed", "tmp">>

\* read_task probing the directories from the last state to the first.
ReadOrderReversed == <<"completed", "failed", "in_progress", "waiting">>

\* fs_queue.py:143-148, the order read_task probes the directories in.
ReadOrder == <<"waiting", "in_progress", "failed", "completed">>

StateDirs == {"waiting", "in_progress", "failed", "completed"}

\* fs_queue.py:83-91
directories == StateDirs \cup {"tmp"}

\* An event description is the sequence of the parts it is formatted from.
TaskCreated == <<"Task created">>
TaskStarted == <<"Task started">>
TaskCompleted == <<"Task completed without exception">>

\* The failure event without the text of the exception.
TaskFailedBare(m) == <<"Task failed with an exception">>

\* fs_queue.py:250, f"Task failed with an exception: {exc}"
TaskFailed(m) == <<"Task failed with an exception: ", m>>

\* No task: the value of a local variable that holds no task (None).
NoTask == [id |-> 0, events |-> <<>>, state |-> "none", data |-> [kind |-> "none", value |-> "none"]]

VARIABLES
    fs,            \* fs[d][f]: the file named f in directory d
    clock,         \* the filesystem's clock: modification times are its values
    coarse,        \* whether two writes can fall within one tick of that clock
    uuids,         \* number of ids drawn by uuid.uuid4 so far
    task_inputs,   \* task_inputs[t]: the task_input start_task was called with
    constructed,   \* number of queue objects constructed on base_dir so far
    pc,            \* pc[p]: the filesystem call process p makes next
    phase,         \* phase[p]: the caller write_task returns to
    this_task_id,  \* process_single_task's this_task_id (0: None)
    task,          \* the task dict the process holds in memory
    prior_task,    \* write_task's prior_task
    listing,       \* _next_available_task: file names not yet visited
    candidates,    \* _next_available_task: its candidates list
    probe,         \* read_task: index in ReadOrder of the next directory
    err,           \* the exception that left the process's top-level call
    poll_id,       \* the id of the poller's current read_task call
    poll_known,    \* whether start_task had returned poll_id when it began
    poll_result,   \* what the poller's last read_task call returned
    poll_seen,     \* the state the poller's read_task call before that returned
    returned,      \* ids start_task has returned
    claimed,       \* claimed[t]: workers whose waiting->in_progress rename of t succeeded
    invoked,       \* invoked[t]: number of process_individual_task calls for t
    outcome,       \* outcome[t]: "returned", or the message the handler raised
    preceding,     \* preceding[t]: the ids start_task had returned when it was called for t
    crashed_at     \* crashed_at[p]: where p was when it was killed ("none": alive)

vars == << fs, clock, coarse, uuids, task_inputs, constructed, pc, phase, this_task_id, task, prior_task,
           listing, candidates, probe, err, poll_id, poll_known, poll_result,
           poll_seen, returned, claimed, invoked, outcome, preceding, crashed_at >>

----------------------------------------------------------------------------
\* The filesystem.

Exists(d, f) == f \in DOMAIN fs[d]

RemoveFile(dir, f) == [g \in (DOMAIN dir) \ {f} |-> dir[g]]

PutFile(dir, f, file) == [g \in (DOMAIN dir) \cup {f} |-> IF g = f THEN file ELSE dir[g]]

\* os.rename(src_dir/f, dst_dir/f) when the source exists: the file leaves
\* src_dir and replaces whatever dst_dir held under that name.
OsRename(src_dir, dst_dir, f) ==
    IF src_dir = dst_dir
    THEN fs
    ELSE [fs EXCEPT ![src_dir] = RemoveFile(@, f),
                    ![dst_dir] = PutFile(@, f, fs[src_dir][f])]

\* utils.py:73-77, DatetimeEncoder.default, applied to the task's data.
EncodeValue(v) ==
    IF v.kind = "datetime" THEN [kind |-> "tagged_dict", value |-> v.value] ELSE v

\* utils.py:95-99, DatetimeDecoder.dict_to_object.
DecodeValue(v) ==
    IF v.kind = "tagged_dict" THEN [kind |-> "datetime", value |-> v.value] ELSE v

\* fs_queue.py:123, json.dumps(task, cls=DatetimeEncoder)
JsonDumps(t) == [t EXCEPT !.data = EncodeValue(@)]

\* fs_queue.py:151-152, json.load(in_file, cls=DatetimeDecoder)
JsonLoad(text) == [text EXCEPT !.data = DecodeValue(@)]

\* validate_typeddict(t, model=Task): every record the queue writes is a Task.
ValidateTask(t) == t

\* fs_queue.py:149-154, one turn of read_task's loop for task_id: the record
\* in the i-th directory of the probe order, or NoTask (FileNotFoundError).
ReadProbe(task_id, i) ==
    IF Exists(ReadOrder[i], task_id)
    THEN ValidateTask(JsonLoad(fs[ReadOrder[i]][task_id].text))
    ELSE NoTask

\* read_task as one uninterrupted call: the result of the first probe that
\* finds a file, NoTask for the ValueError.
RECURSIVE ReadFrom(_, _)
ReadFrom(task_id, i) ==
    IF i > Len(ReadOrder) THEN NoTask
    ELSE IF ReadProbe(task_id, i) # NoTask THEN ReadProbe(task_id, i)
    ELSE ReadFrom(task_id, i + 1)

ReadTask(task_id) == ReadFrom(task_id, 1)

\* record_task_event that replaces the event list by the new event.
RecordEventOnly(t, state, event) ==
    [t EXCEPT !.state = state, !.events = << event >>]

\* record_task_event that appends the event and leaves the state field as
\* it was.
RecordEventKeepsState(t, state, event) ==
    [t EXCEPT !.events = Append(@, event)]

\* fs_queue.py:179-183, record_task_event before its write_task call.
RecordEvent(t, state, event) ==
    [t EXCEPT !.state = state, !.events = Append(@, event)]

\* The candidate with the largest modification time.
MaxCandidate(cs) ==
    LET most == CHOOSE i \in 1..Len(cs) : \A j \in 1..Len(cs) : cs[i][2] >= cs[j][2]
    IN  cs[most][1]

\* fs_queue.py:204, min(candidates, key=lambda fm: fm[1]): the first entry
\* of the list whose modification time is the smallest.
MinCandidate(cs) ==
    LET least == CHOOSE i \in 1..Len(cs) :
                    /\ \A j \in 1..Len(cs) : cs[i][2] <= cs[j][2]
                    /\ \A j \in 1..(i - 1) : cs[j][2] > cs[i][2]
    IN  cs[least][1]

----------------------------------------------------------------------------
\* The locals of a call are dropped when it returns.

Return(p) ==
    /\ phase' = [phase EXCEPT ![p] = "none"]
    /\ this_task_id' = [this_task_id EXCEPT ![p] = 0]
    /\ task' = [task EXCEPT ![p] = NoTask]
    /\ prior_task' = [prior_task EXCEPT ![p] = NoTask]
    /\ listing' = [listing EXCEPT ![p] = {}]
    /\ candidates' = [candidates EXCEPT ![p] = <<>>]
    /\ probe' = [probe EXCEPT ![p] = 0]

\* An exception leaves the top-level call: process_tasks (fs_queue.py:264-265)
\* catches nothing, so a worker's loop ends with it.
Raise(p, exc) ==
    /\ pc' = [pc EXCEPT ![p] = "raised"]
    /\ err' = [err EXCEPT ![p] = exc]

ghosts == << returned, claimed, invoked, outcome, preceding, crashed_at >>
poller == << poll_id, poll_known, poll_result, poll_seen >>

----------------------------------------------------------------------------
\* _next_available_task, fs_queue.py:187-207

\* ListWaiting without the except ValueError clause: min of an empty
\* candidates list ends the call with the exception.
ListWaitingUncaught(p) ==
    /\ pc[p] = "idle"
    /\ p \in Workers
    /\ listing' = [listing EXCEPT ![p] = DOMAIN fs["waiting"]]
    /\ candidates' = [candidates EXCEPT ![p] = <<>>]
    /\ IF DOMAIN fs["waiting"] = {}
       THEN Raise(p, "ValueError")
       ELSE pc' = [pc EXCEPT ![p] = "getmtime"] /\ UNCHANGED err
    /\ UNCHANGED << fs, clock, coarse, uuids, task_inputs, constructed, phase, this_task_id, task, prior_task, probe,
                    poller, ghosts >>

\* fs_queue.py:194, os.listdir(self.waiting_dir); an empty listing leaves
\* candidates empty, min raises ValueError and the call returns None, so
\* process_single_task goes to sleep (fs_queue.py:214-216).
ListWaiting(p) ==
    /\ pc[p] = "idle"
    /\ p \in Workers
    /\ listing' = [listing EXCEPT ![p] = DOMAIN fs["waiting"]]
    /\ candidates' = [candidates EXCEPT ![p] = <<>>]
    /\ pc' = [pc EXCEPT ![p] = IF DOMAIN fs["waiting"] = {} THEN "sleep" ELSE "getmtime"]
    /\ UNCHANGED << fs, clock, coarse, uuids, task_inputs, constructed, phase, this_task_id, task, prior_task, probe, err,
                    poller, ghosts >>

\* GetMTime without the except FileNotFoundError clause: an entry that left
\* waiting since the listing ends the call with the exception.
GetMTimeUncaught(p) ==
    /\ pc[p] = "getmtime"
    /\ \E filename \in listing[p] :
        LET cs == Append(candidates[p], << filename, IF Exists("waiting", filename)
                                                    THEN fs["waiting"][filename].mtime
                                                    ELSE 0 >>)
            rest == listing[p] \ {filename}
        IN  /\ listing' = [listing EXCEPT ![p] = rest]
            /\ IF ~Exists("waiting", filename)
               THEN /\ Raise(p, "FileNotFoundError")
                    /\ UNCHANGED << candidates, this_task_id >>
               ELSE /\ candidates' = [candidates EXCEPT ![p] = cs]
                    /\ UNCHANGED err
                    /\ IF rest # {}
                       THEN /\ pc' = [pc EXCEPT ![p] = "getmtime"]
                            /\ UNCHANGED this_task_id
                       ELSE /\ pc' = [pc EXCEPT ![p] = "claim"]
                            /\ this_task_id' = [this_task_id EXCEPT ![p] = MinCandidate(cs)]
    /\ UNCHANGED << fs, clock, coarse, uuids, task_inputs, constructed, phase, task, prior_task, probe, poller, ghosts >>

\* fs_queue.py:195-207, one turn of the loop over the listing (os.listdir
\* returns the names in arbitrary order): os.path.getmtime, or the entry is
\* skipped on FileNotFoundError; after the last turn, min picks the task.
GetMTime(p) ==
    /\ pc[p] = "getmtime"
    /\ \E filename \in listing[p] :
        LET cs == IF Exists("waiting", filename)
                  THEN Append(candidates[p], << filename, fs["waiting"][filename].mtime >>)
                  ELSE candidates[p]
            rest == listing[p] \ {filename}
        IN  /\ listing' = [listing EXCEPT ![p] = rest]
            /\ candidates' = [candidates EXCEPT ![p] = cs]
            /\ IF rest # {}
               THEN /\ pc' = [pc EXCEPT ![p] = "getmtime"]
                    /\ UNCHANGED this_task_id
               ELSE IF cs = <<>>
               THEN /\ pc' = [pc EXCEPT ![p] = "sleep"]
                    /\ UNCHANGED this_task_id
               ELSE /\ pc' = [pc EXCEPT ![p] = "claim"]
                    /\ this_task_id' = [this_task_id EXCEPT ![p] = MinCandidate(cs)]
    /\ UNCHANGED << fs, clock, coarse, uuids, task_inputs, constructed, phase, task, prior_task, probe, err, poller, ghosts >>

----------------------------------------------------------------------------
\* process_single_task, fs_queue.py:209-256

\* fs_queue.py:214-217, time.sleep(1) and return.
Sleep(p) ==
    /\ pc[p] = "sleep"
    /\ pc' = [pc EXCEPT ![p] = "idle"]
    /\ Return(p)
    /\ UNCHANGED << fs, clock, coarse, uuids, task_inputs, constructed, err, poller, ghosts >>

\* ClaimTask that takes the file out of waiting with os.remove and leaves
\* the copy in in_progress to the write that follows.
ClaimTaskRemoves(p) ==
    /\ pc[p] = "claim"
    /\ IF Exists("waiting", this_task_id[p])
       THEN /\ fs' = [fs EXCEPT !["waiting"] = RemoveFile(@, this_task_id[p])]
            /\ claimed' = [claimed EXCEPT ![this_task_id[p]] = @ \cup {p}]
            /\ pc' = [pc EXCEPT ![p] = "read_claimed"]
            /\ probe' = [probe EXCEPT ![p] = 1]
            /\ UNCHANGED << phase, this_task_id, task, prior_task, listing, candidates >>
       ELSE /\ pc' = [pc EXCEPT ![p] = "idle"]
            /\ Return(p)
            /\ UNCHANGED << fs, claimed >>
    /\ UNCHANGED << clock, coarse, uuids, task_inputs, constructed, err, poller, returned, invoked, outcome, crashed_at, preceding >>

\* ClaimTask with the FileNotFoundError swallowed instead of ending the call.
ClaimTaskIgnoreMissing(p) ==
    /\ pc[p] = "claim"
    /\ IF Exists("waiting", this_task_id[p])
       THEN /\ fs' = OsRename("waiting", "in_progress", this_task_id[p])
            /\ claimed' = [claimed EXCEPT ![this_task_id[p]] = @ \cup {p}]
       ELSE UNCHANGED << fs, claimed >>
    /\ pc' = [pc EXCEPT ![p] = "read_claimed"]
    /\ probe' = [probe EXCEPT ![p] = 1]
    /\ UNCHANGED << clock, coarse, uuids, task_inputs, constructed, phase, this_task_id, task, prior_task, listing, candidates,
                    err, poller, returned, invoked, outcome, crashed_at, preceding >>

\* fs_queue.py:224-234, the rename from waiting to in_progress; on
\* FileNotFoundError the call logs a warning and returns.  When the rename
\* succeeds the call goes on to read_task (fs_queue.py:237).
ClaimTask(p) ==
    /\ pc[p] = "claim"
    /\ IF Exists("waiting", this_task_id[p])
       THEN /\ fs' = OsRename("waiting", "in_progress", this_task_id[p])
            /\ claimed' = [claimed EXCEPT ![this_task_id[p]] = @ \cup {p}]
            /\ pc' = [pc EXCEPT ![p] = "read_claimed"]
            /\ probe' = [probe EXCEPT ![p] = 1]
            /\ UNCHANGED << phase, this_task_id, task, prior_task, listing, candidates >>
       ELSE /\ pc' = [pc EXCEPT ![p] = "idle"]
            /\ Return(p)
            /\ UNCHANGED << fs, claimed >>
    /\ UNCHANGED << clock, coarse, uuids, task_inputs, constructed, err, poller, returned, invoked, outcome, crashed_at, preceding >>

\* fs_queue.py:237-239, one probe of read_task(this_task_id); the record
\* found becomes task, record_task_event sets its state to in_progress and
\* appends "Task started", and write_task begins.  A ValueError from
\* read_task is not caught.
ReadClaimed(p) ==
    /\ pc[p] = "read_claimed"
    /\ LET t == ReadProbe(this_task_id[p], probe[p])
       IN  IF t # NoTask
           THEN /\ task' = [task EXCEPT ![p] = RecordEvent(t, "in_progress", TaskStarted)]
                /\ phase' = [phase EXCEPT ![p] = "start"]
                /\ pc' = [pc EXCEPT ![p] = "wt_open"]
                /\ probe' = [probe EXCEPT ![p] = 0]
                /\ UNCHANGED err
           ELSE IF probe[p] < Len(ReadOrder)
           THEN /\ probe' = [probe EXCEPT ![p] = @ + 1]
                /\ UNCHANGED << task, phase, pc, err >>
           ELSE /\ Raise(p, "ValueError")
                /\ UNCHANGED << task, phase, probe >>
    /\ UNCHANGED << fs, clock, coarse, uuids, task_inputs, constructed, this_task_id, prior_task, listing, candidates,
                    poller, ghosts >>

\* RunHandler without the except clause: the handler's exception leaves
\* process_single_task.
RunHandlerUncaught(p) ==
    /\ pc[p] = "handler"
    /\ invoked' = [invoked EXCEPT ![task[p].id] = @ + 1]
    /\ \/ /\ task' = [task EXCEPT ![p] = RecordEvent(@, "completed", TaskCompleted)]
          /\ outcome' = [outcome EXCEPT ![task[p].id] = "returned"]
          /\ phase' = [phase EXCEPT ![p] = "terminal"]
          /\ pc' = [pc EXCEPT ![p] = "wt_open"]
          /\ UNCHANGED err
       \/ /\ \E m \in Messages : outcome' = [outcome EXCEPT ![task[p].id] = m]
          /\ Raise(p, "Exception")
          /\ UNCHANGED << task, phase >>
    /\ UNCHANGED << fs, clock, coarse, uuids, task_inputs, constructed, this_task_id, prior_task, listing, candidates,
                    probe, poller, returned, claimed, crashed_at, preceding >>

\* RunHandler whose except clause records the state completed.
RunHandlerAlwaysCompleted(p) ==
    /\ pc[p] = "handler"
    /\ invoked' = [invoked EXCEPT ![task[p].id] = @ + 1]
    /\ \/ /\ task' = [task EXCEPT ![p] = RecordEvent(@, "completed", TaskCompleted)]
          /\ outcome' = [outcome EXCEPT ![task[p].id] = "returned"]
       \/ \E m \in Messages :
            /\ task' = [task EXCEPT ![p] = RecordEvent(@, "completed", TaskFailed(m))]
            /\ outcome' = [outcome EXCEPT ![task[p].id] = m]
    /\ phase' = [phase EXCEPT ![p] = "terminal"]
    /\ pc' = [pc EXCEPT ![p] = "wt_open"]
    /\ UNCHANGED << fs, clock, coarse, uuids, task_inputs, constructed, this_task_id, prior_task, listing, candidates,
                    probe, err, poller, returned, claimed, crashed_at, preceding >>

\* fs_queue.py:241-256, process_individual_task returns or raises an
\* exception with message m; record_task_event sets the terminal state and
\* appends the terminal event, and write_task begins.
RunHandler(p) ==
    /\ pc[p] = "handler"
    /\ invoked' = [invoked EXCEPT ![task[p].id] = @ + 1]
    /\ \/ /\ task' = [task EXCEPT ![p] = RecordEvent(@, "completed", TaskCompleted)]
          /\ outcome' = [outcome EXCEPT ![task[p].id] = "returned"]
       \/ \E m \in Messages :
            /\ task' = [task EXCEPT ![p] = RecordEvent(@, "failed", TaskFailed(m))]
            /\ outcome' = [outcome EXCEPT ![task[p].id] = m]
    /\ phase' = [phase EXCEPT ![p] = "terminal"]
    /\ pc' = [pc EXCEPT ![p] = "wt_open"]
    /\ UNCHANGED << fs, clock, coarse, uuids, task_inputs, constructed, this_task_id, prior_task, listing, candidates,
                    probe, err, poller, returned, claimed, crashed_at, preceding >>

----------------------------------------------------------------------------
\* write_task, fs_queue.py:113-137

\* fs_queue.py:119, tmp_path is tmp_dir / task["id"]
TmpPath(p) == task[p].id

\* fs_queue.py:120, out_path is under base_dir / task["state"]
OutDir(p) == task[p].state

\* fs_queue.py:133, prior_path is under base_dir / prior_task["state"]
PriorDir(p) == prior_task[p].state

\* write_task that renames the scratch file before it has written to it.
WtOpenNoWrite(p) ==
    /\ pc[p] = "wt_open"
    /\ IF Exists("tmp", TmpPath(p))
       THEN /\ Raise(p, "FileExistsError")
            /\ UNCHANGED << fs, probe >>
       ELSE /\ fs' = [fs EXCEPT !["tmp"] = PutFile(@, TmpPath(p), [text |-> NoTask, mtime |-> clock])]
            /\ pc' = [pc EXCEPT ![p] = "wt_read"]
            /\ probe' = [probe EXCEPT ![p] = 1]
            /\ UNCHANGED err
    /\ UNCHANGED << clock, coarse, uuids, task_inputs, constructed, phase, this_task_id, task, prior_task, listing,
                    candidates, poller, ghosts >>

\* WtOpen with open(tmp_path, "w"): a file found in tmp is truncated and
\* written over.
WtOpenOverwrites(p) ==
    /\ pc[p] = "wt_open"
    /\ fs' = [fs EXCEPT !["tmp"] = PutFile(@, TmpPath(p), [text |-> NoTask, mtime |-> clock])]
    /\ pc' = [pc EXCEPT ![p] = "wt_write"]
    /\ UNCHANGED << clock, coarse, uuids, task_inputs, constructed, phase, this_task_id, task, prior_task, listing, candidates,
                    probe, err, poller, ghosts >>

\* fs_queue.py:122, open(tmp_path, "x"): the file is created empty, or
\* FileExistsError.
WtOpen(p) ==
    /\ pc[p] = "wt_open"
    /\ IF Exists("tmp", TmpPath(p))
       THEN /\ Raise(p, "FileExistsError")
            /\ UNCHANGED fs
       ELSE /\ fs' = [fs EXCEPT !["tmp"] = PutFile(@, TmpPath(p), [text |-> NoTask, mtime |-> clock])]
            /\ pc' = [pc EXCEPT ![p] = "wt_write"]
            /\ UNCHANGED err
    /\ UNCHANGED << clock, coarse, uuids, task_inputs, constructed, phase, this_task_id, task, prior_task, listing, candidates,
                    probe, poller, ghosts >>

\* fs_queue.py:122-123, tmp_file.write(json.dumps(...)) and the close of the
\* with block; then read_task begins (fs_queue.py:128).  The write stamps the
\* file with the clock's value; on a filesystem with coarse timestamps the
\* clock may not have advanced since the write before it.
WtWrite(p) ==
    /\ pc[p] = "wt_write"
    /\ \E now \in (IF coarse THEN {clock, clock + 1} ELSE {clock + 1}) :
        /\ fs' = [fs EXCEPT !["tmp"] =
                     IF TmpPath(p) \in DOMAIN @
                     THEN PutFile(@, TmpPath(p), [text |-> JsonDumps(task[p]), mtime |-> now])
                     ELSE @]
        /\ clock' = now
    /\ pc' = [pc EXCEPT ![p] = "wt_read"]
    /\ probe' = [probe EXCEPT ![p] = 1]
    /\ UNCHANGED << coarse, uuids, task_inputs, constructed, phase, this_task_id, task, prior_task, listing, candidates, err,
                    poller, ghosts >>

\* fs_queue.py:127-137, one probe of read_task(task["id"]); a ValueError
\* makes prior_task None.  The test of line 132 picks the renames to do.
WtRead(p) ==
    /\ pc[p] = "wt_read"
    /\ LET t == ReadProbe(task[p].id, probe[p])
       IN  IF t # NoTask
           THEN /\ prior_task' = [prior_task EXCEPT ![p] = t]
                /\ probe' = [probe EXCEPT ![p] = 0]
                /\ pc' = [pc EXCEPT ![p] = IF t.state # task[p].state
                                           THEN "wt_rename_prior" ELSE "wt_rename_out"]
           ELSE IF probe[p] < Len(ReadOrder)
           THEN /\ probe' = [probe EXCEPT ![p] = @ + 1]
                /\ UNCHANGED << prior_task, pc >>
           ELSE /\ probe' = [probe EXCEPT ![p] = 0]
                /\ pc' = [pc EXCEPT ![p] = "wt_rename_out"]
                /\ UNCHANGED prior_task
    /\ UNCHANGED << fs, clock, coarse, uuids, task_inputs, constructed, phase, this_task_id, task, listing, candidates, err,
                    poller, ghosts >>

\* write_task returns to its caller: start_task returns the id
\* (fs_queue.py:177); the record_task_event of line 239 returns to the
\* handler call; the one of line 248 or 254 ends process_single_task.
WtReturn(p) ==
    IF phase[p] = "start"
    THEN /\ pc' = [pc EXCEPT ![p] = "handler"]
         /\ prior_task' = [prior_task EXCEPT ![p] = NoTask]
         /\ UNCHANGED << phase, this_task_id, task, listing, candidates, probe, returned >>
    ELSE /\ pc' = [pc EXCEPT ![p] = "idle"]
         /\ returned' = IF phase[p] = "create" THEN returned \cup {task[p].id} ELSE returned
         /\ Return(p)

\* fs_queue.py:134, os.rename(tmp_path, prior_path)
WtRenamePrior(p) ==
    /\ pc[p] = "wt_rename_prior"
    /\ IF Exists("tmp", TmpPath(p))
       THEN /\ fs' = OsRename("tmp", PriorDir(p), task[p].id)
            /\ pc' = [pc EXCEPT ![p] = "wt_rename_move"]
            /\ UNCHANGED err
       ELSE /\ Raise(p, "FileNotFoundError")
            /\ UNCHANGED fs
    /\ UNCHANGED << clock, coarse, uuids, task_inputs, constructed, phase, this_task_id, task, prior_task, listing, candidates,
                    probe, poller, ghosts >>

\* WtRenameMove that copies the file to out_path and leaves prior_path.
WtRenameMoveCopies(p) ==
    /\ pc[p] = "wt_rename_move"
    /\ IF Exists(PriorDir(p), task[p].id)
       THEN /\ fs' = [fs EXCEPT ![OutDir(p)] = PutFile(@, task[p].id, fs[PriorDir(p)][task[p].id])]
            /\ WtReturn(p)
            /\ UNCHANGED err
       ELSE /\ Raise(p, "FileNotFoundError")
            /\ UNCHANGED << fs, phase, this_task_id, task, prior_task, listing, candidates,
                            probe, returned >>
    /\ UNCHANGED << clock, coarse, uuids, task_inputs, constructed, poller, claimed, invoked, outcome, crashed_at, preceding >>

\* fs_queue.py:135, os.rename(prior_path, out_path)
WtRenameMove(p) ==
    /\ pc[p] = "wt_rename_move"
    /\ IF Exists(PriorDir(p), task[p].id)
       THEN /\ fs' = OsRename(PriorDir(p), OutDir(p), task[p].id)
            /\ WtReturn(p)
            /\ UNCHANGED err
       ELSE /\ Raise(p, "FileNotFoundError")
            /\ UNCHANGED << fs, phase, this_task_id, task, prior_task, listing, candidates,
                            probe, returned >>
    /\ UNCHANGED << clock, coarse, uuids, task_inputs, constructed, poller, claimed, invoked, outcome, crashed_at, preceding >>

\* WtRenameOut that copies the scratch file to out_path and leaves it in tmp.
WtRenameOutCopies(p) ==
    /\ pc[p] = "wt_rename_out"
    /\ IF Exists("tmp", TmpPath(p))
       THEN /\ fs' = [fs EXCEPT ![OutDir(p)] = PutFile(@, task[p].id, fs["tmp"][TmpPath(p)])]
            /\ WtReturn(p)
            /\ UNCHANGED err
       ELSE /\ Raise(p, "FileNotFoundError")
            /\ UNCHANGED << fs, phase, this_task_id, task, prior_task, listing, candidates,
                            probe, returned >>
    /\ UNCHANGED << clock, coarse, uuids, task_inputs, constructed, poller, claimed, invoked, outcome, crashed_at, preceding >>

\* fs_queue.py:137, os.rename(tmp_path, out_path)
WtRenameOut(p) ==
    /\ pc[p] = "wt_rename_out"
    /\ IF Exists("tmp", TmpPath(p))
       THEN /\ fs' = OsRename("tmp", OutDir(p), task[p].id)
            /\ WtReturn(p)
            /\ UNCHANGED err
       ELSE /\ Raise(p, "FileNotFoundError")
            /\ UNCHANGED << fs, phase, this_task_id, task, prior_task, listing, candidates,
                            probe, returned >>
    /\ UNCHANGED << clock, coarse, uuids, task_inputs, constructed, poller, claimed, invoked, outcome, crashed_at, preceding >>

----------------------------------------------------------------------------
\* StartTask with an id generator that repeats its first id.
StartTaskRepeatedId(p) ==
    /\ p = Enqueuer
    /\ pc[p] = "idle"
    /\ uuids < MaxTasks
    /\ uuids' = uuids + 1
    /\ UNCHANGED constructed
    /\ \E task_input \in Payloads :
        /\ task' = [task EXCEPT ![p] = [id |-> 1, events |-> << TaskCreated >>,
                                        state |-> "waiting", data |-> task_input]]
        /\ task_inputs' = [task_inputs EXCEPT ![1] = task_input]
    /\ phase' = [phase EXCEPT ![p] = "create"]
    /\ pc' = [pc EXCEPT ![p] = "wt_open"]
    /\ preceding' = [preceding EXCEPT ![1] = returned]
    /\ UNCHANGED << fs, clock, coarse, this_task_id, prior_task, listing, candidates, probe,
                    err, poller, returned, claimed, invoked, outcome, crashed_at >>

\* StartTaskWith with an id generator that returns the first id every time.
StartTaskWithFirstId(p, inputs) ==
    /\ pc[p] = "idle"
    /\ uuids < MaxTasks
    /\ uuids' = uuids + 1
    /\ UNCHANGED constructed
    /\ \E task_input \in inputs :
        /\ task' = [task EXCEPT ![p] = [id |-> 1, events |-> << TaskCreated >>,
                                        state |-> "waiting", data |-> task_input]]
        /\ task_inputs' = [task_inputs EXCEPT ![1] = task_input]
    /\ phase' = [phase EXCEPT ![p] = "create"]
    /\ pc' = [pc EXCEPT ![p] = "wt_open"]
    /\ preceding' = [preceding EXCEPT ![1] = returned]
    /\ UNCHANGED << fs, clock, coarse, this_task_id, prior_task, listing, candidates, probe,
                    err, poller, returned, claimed, invoked, outcome, crashed_at >>

\* start_task, fs_queue.py:158-177, called by process p with a task_input
\* out of inputs: a fresh id, the record of a waiting task with its creation
\* event, and write_task begins.
StartTaskWith(p, inputs) ==
    /\ pc[p] = "idle"
    /\ uuids < MaxTasks
    /\ uuids' = uuids + 1
    /\ UNCHANGED constructed
    /\ \E task_input \in inputs :
        /\ task' = [task EXCEPT ![p] = [id |-> uuids + 1, events |-> << TaskCreated >>,
                                        state |-> "waiting", data |-> task_input]]
        /\ task_inputs' = [task_inputs EXCEPT ![uuids + 1] = task_input]
    /\ phase' = [phase EXCEPT ![p] = "create"]
    /\ pc' = [pc EXCEPT ![p] = "wt_open"]
    /\ preceding' = [preceding EXCEPT ![uuids + 1] = returned]
    /\ UNCHANGED << fs, clock, coarse, this_task_id, prior_task, listing, candidates, probe,
                    err, poller, returned, claimed, invoked, outcome, crashed_at >>

StartTask(p) == p = Enqueuer /\ StartTaskWith(p, Payloads)

\* start_task called with payloads that JSON stores as they are.
StartPlainTask(p) ==
    p = Enqueuer /\ StartTaskWith(p, {v \in Payloads : v.kind = "plain"})

\* start_task called by a process that also runs process_tasks, between two
\* process_single_task calls.
StartTaskHere(p) ==
    p \in Workers /\ StartTaskWith(p, {v \in Payloads : v.kind = "plain"})

----------------------------------------------------------------------------
\* A caller polling read_task(task_id), fs_queue.py:139-156.

PollBegin(p) ==
    /\ p = Poller
    /\ pc[p] \in {"idle", "poll_returned", "poll_raised"}
    /\ \E task_id \in TaskIds :
        /\ poll_id' = task_id
        /\ poll_known' = (task_id \in returned)
    /\ poll_result' = NoTask
    /\ poll_seen' = "none"
    /\ pc' = [pc EXCEPT ![p] = "poll_read"]
    /\ probe' = [probe EXCEPT ![p] = 1]
    /\ UNCHANGED << fs, clock, coarse, uuids, task_inputs, constructed, phase, this_task_id, task, prior_task, listing,
                    candidates, err, ghosts >>

\* PollRead that, when the record it found names another state than the
\* directory it lies in, rewrites the record's state field in place.
PollReadRepairs(p) ==
    /\ p = Poller
    /\ pc[p] = "poll_read"
    /\ LET t == ReadProbe(poll_id, probe[p])
           d == ReadOrder[probe[p]]
       IN  IF t # NoTask
           THEN /\ poll_result' = [t EXCEPT !.state = d]
                /\ fs' = [fs EXCEPT ![d][poll_id].text.state = d]
                /\ probe' = [probe EXCEPT ![p] = 0]
                /\ pc' = [pc EXCEPT ![p] = "poll_returned"]
           ELSE IF probe[p] < Len(ReadOrder)
           THEN /\ probe' = [probe EXCEPT ![p] = @ + 1]
                /\ UNCHANGED << fs, poll_result, pc >>
           ELSE /\ probe' = [probe EXCEPT ![p] = 0]
                /\ pc' = [pc EXCEPT ![p] = "poll_raised"]
                /\ UNCHANGED << fs, poll_result >>
    /\ UNCHANGED << clock, coarse, uuids, task_inputs, constructed, phase, this_task_id, task, prior_task, listing,
                    candidates, err, poll_id, poll_known, poll_seen, ghosts >>

\* fs_queue.py:143-156, one probe; after the last directory, ValueError.
PollRead(p) ==
    /\ p = Poller
    /\ pc[p] = "poll_read"
    /\ LET t == ReadProbe(poll_id, probe[p])
       IN  IF t # NoTask
           THEN /\ poll_result' = t
                /\ probe' = [probe EXCEPT ![p] = 0]
                /\ pc' = [pc EXCEPT ![p] = "poll_returned"]
           ELSE IF probe[p] < Len(ReadOrder)
           THEN /\ probe' = [probe EXCEPT ![p] = @ + 1]
                /\ UNCHANGED << poll_result, pc >>
           ELSE /\ probe' = [probe EXCEPT ![p] = 0]
                /\ pc' = [pc EXCEPT ![p] = "poll_raised"]
                /\ UNCHANGED poll_result
    /\ UNCHANGED << fs, clock, coarse, uuids, task_inputs, constructed, phase, this_task_id, task, prior_task, listing,
                    candidates, err, poll_id, poll_known, poll_seen, ghosts >>

\* The caller reads the same id again and keeps the state its last call
\* returned to compare the next result with.
PollAgain(p) ==
    /\ p = Poller
    /\ pc[p] = "poll_returned"
    /\ poll_seen' = poll_result.state
    /\ poll_result' = NoTask
    /\ poll_known' = (poll_id \in returned)
    /\ pc' = [pc EXCEPT ![p] = "poll_read"]
    /\ probe' = [probe EXCEPT ![p] = 1]
    /\ UNCHANGED << fs, clock, coarse, uuids, task_inputs, constructed, phase, this_task_id, task, prior_task, listing,
                    candidates, err, poll_id, ghosts >>

----------------------------------------------------------------------------
\* os.makedirs of every directory with exist_ok=True and a filesystem that
\* is emptied first.
MakeDirsAfresh(f) == [d \in directories |-> [g \in {} |-> NoTask]]

\* fs_queue.py:66-67, os.makedirs(dirname, exist_ok=True) for the five
\* directories: a directory that exists is left as it is, a missing one is
\* created empty.
MakeDirs(f) ==
    [d \in directories |-> IF d \in DOMAIN f THEN f[d] ELSE [g \in {} |-> NoTask]]

\* fs_queue.py:63-81, __init__: a caller constructs one more queue object on
\* base_dir, at any moment of the other processes' calls.
Construct(p) ==
    /\ p = Poller
    /\ constructed < MaxQueues
    /\ constructed' = constructed + 1
    /\ fs' = MakeDirs(fs)
    /\ UNCHANGED << clock, coarse, uuids, task_inputs, pc, phase, this_task_id, task,
                    prior_task, listing, candidates, probe, err, poller, ghosts >>

----------------------------------------------------------------------------
\* The process is killed between two filesystem calls.
Crash(p) ==
    /\ p \in Workers \cup {Enqueuer}
    /\ pc[p] \notin {"raised", "crashed"}
    /\ Cardinality({q \in Procs : crashed_at[q] # "none"}) < MaxCrashes
    /\ crashed_at' = [crashed_at EXCEPT ![p] = pc[p]]
    /\ pc' = [pc EXCEPT ![p] = "crashed"]
    /\ UNCHANGED << fs, clock, coarse, uuids, task_inputs, constructed, phase, this_task_id, task, prior_task, listing,
                    candidates, probe, err, poller, returned, claimed, invoked, outcome, preceding >>

----------------------------------------------------------------------------
\* The queue has no code that recovers a task whose worker was killed: an
\* operator moves the file of such a task, once no live worker holds it,
\* from in_progress back to waiting, the reverse of the rename of
\* fs_queue.py:225-228.
Requeue(p) ==
    /\ p = Poller
    /\ \E t \in TaskIds :
        /\ \E q \in Workers : pc[q] = "crashed" /\ this_task_id[q] = t
        /\ \A q \in Workers : this_task_id[q] = t => pc[q] \in {"claim", "raised", "crashed"}
        /\ Exists("in_progress", t)
        /\ ~Exists("waiting", t)
        /\ fs' = OsRename("in_progress", "waiting", t)
    /\ UNCHANGED << clock, coarse, uuids, task_inputs, constructed, pc, phase, this_task_id, task,
                    prior_task, listing, candidates, probe, err, poller, ghosts >>

----------------------------------------------------------------------------
\* fs_queue.py:63-81: after __init__ the five directories exist; a fresh
\* store holds no file.
InitQueue ==
    /\ fs = [d \in directories |-> [f \in {} |-> NoTask]]
    /\ clock = 0
    /\ uuids = 0
    /\ constructed = 1
    /\ task_inputs = [t \in TaskIds |-> NoTask.data]
    /\ pc = [p \in Procs |-> "idle"]
    /\ phase = [p \in Procs |-> "none"]
    /\ this_task_id = [p \in Procs |-> 0]
    /\ task = [p \in Procs |-> NoTask]
    /\ prior_task = [p \in Procs |-> NoTask]
    /\ listing = [p \in Procs |-> {}]
    /\ candidates = [p \in Procs |-> << >>]
    /\ probe = [p \in Procs |-> 0]
    /\ err = [p \in Procs |-> "none"]
    /\ poll_id = 0
    /\ poll_known = FALSE
    /\ poll_result = NoTask
    /\ poll_seen = "none"
    /\ returned = {}
    /\ claimed = [t \in TaskIds |-> {}]
    /\ invoked = [t \in TaskIds |-> 0]
    /\ outcome = [t \in TaskIds |-> "none"]
    /\ preceding = [t \in TaskIds |-> {}]
    /\ crashed_at = [p \in Procs |-> "none"]

\* The store is on a filesystem whose clock advances between any two writes.
Init == InitQueue /\ coarse = FALSE

\* The store is on a filesystem with coarse timestamps.
InitCoarse == InitQueue /\ coarse = TRUE

\* One step of process_tasks' loop (fs_queue.py:264-265).
WorkerStep(p) ==
    \/ ListWaiting(p)
    \/ GetMTime(p)
    \/ Sleep(p)
    \/ ClaimTask(p)
    \/ ReadClaimed(p)
    \/ RunHandler(p)

WriteStep(p) ==
    \/ WtOpen(p)
    \/ WtWrite(p)
    \/ WtRead(p)
    \/ WtRenamePrior(p)
    \/ WtRenameMove(p)
    \/ WtRenameOut(p)

\* Workers and a caller of start_task.
QueueStep == \E p \in Procs : WorkerStep(p) \/ WriteStep(p) \/ StartTask(p)

PollStep == \E p \in Procs : PollBegin(p) \/ PollRead(p)

Next == QueueStep

Spec == Init /\ [][Next]_vars

NextPoll == QueueStep \/ PollStep

SpecPoll == Init /\ [][NextPoll]_vars

NextCrash == QueueStep \/ \E p \in Procs : Crash(p)

SpecCrash == Init /\ [][NextCrash]_vars

\* Workers and a caller of start_task with plain payloads.
PlainQueueStep == \E p \in Procs : WorkerStep(p) \/ WriteStep(p) \/ StartPlainTask(p)

\* The queue on a filesystem with coarse timestamps.
NextCoarse == PlainQueueStep

SpecCoarse == InitCoarse /\ [][NextCoarse]_vars

\* The queue and a caller that reads one id again and again.
NextWatch == PlainQueueStep \/ PollStep \/ \E p \in Procs : PollAgain(p)

SpecWatch == Init /\ [][NextWatch]_vars

\* The queue with three processes that call start_task, two of which are
\* workers as well.
NextEnqueue == PlainQueueStep \/ \E p \in Procs : StartTaskHere(p)

SpecEnqueue == Init /\ [][NextEnqueue]_vars

\* The queue and a caller that constructs further queue objects on base_dir.
NextInit == PlainQueueStep \/ \E p \in Procs : Construct(p)

SpecInit == Init /\ [][NextInit]_vars

\* The queue with process kills and an operator who requeues the tasks of
\* killed workers.
NextRecover == PlainQueueStep \/ \E p \in Procs : Crash(p) \/ Requeue(p)

SpecRecover == Init /\ [][NextRecover]_vars

\* fs_queue.py:258-265, the one process that runs process_tasks when the
\* queue has a single worker loop.
TheWorker == CHOOSE p \in Workers : \A q \in Workers : p <= q

\* A single worker loop and two other processes that call start_task, on a
\* filesystem with coarse timestamps.
NextSingle ==
    \/ WorkerStep(TheWorker)
    \/ \E p \in Procs : WriteStep(p) \/ StartPlainTask(p)
    \/ \E p \in Procs \ {TheWorker} : StartTaskHere(p)

SpecSingle == InitCoarse /\ [][NextSingle]_vars

\* The processes run on one host whose scheduler lets every live worker
\* take its next step.
FairSpec == Spec /\ \A p \in Workers : WF_vars(WorkerStep(p) \/ WriteStep(p))

----------------------------------------------------------------------------
\* Properties.

\* A worker holds task t from its successful claim until its
\* process_single_task call ends.
HoldingPcs == {"read_claimed", "wt_open", "wt_write", "wt_read", "wt_rename_prior",
               "wt_rename_move", "wt_rename_out", "handler"}

Holds(p, t) == pc[p] \in HoldingPcs /\ this_task_id[p] = t

\* The steps of write_task after the scratch file is written and before the
\* last rename is done.
WriteWindow == {"wt_read", "wt_rename_prior", "wt_rename_move", "wt_rename_out"}

Terminal(t) == Exists("completed", t) \/ Exists("failed", t)

\* C1: each task is claimed by at most one worker: at most one worker's
\* waiting->in_progress rename succeeds for a task id, and no two workers
\* hold the same task at the same moment.
C1_ExclusiveClaim ==
    \A t \in TaskIds :
        /\ Cardinality(claimed[t]) <= 1
        /\ \A p, q \in Workers : p # q => ~(Holds(p, t) /\ Holds(q, t))

\* C2: process_individual_task is invoked at most once for each task id,
\* and no task has a file in both completed and failed.
C2_ProcessedOnce ==
    \A t \in TaskIds :
        /\ invoked[t] <= 1
        /\ ~(Exists("completed", t) /\ Exists("failed", t))

\* A task two workers claimed, whose handler ran and which is completed.
C2_Witness ==
    \E t \in TaskIds :
        Cardinality(claimed[t]) = 2 /\ invoked[t] = 1 /\ Exists("completed", t)

\* C3: under weak fairness of every worker's steps, every task start_task
\* returned eventually has its file in completed or failed.
C3_EventuallyTerminal ==
    \A t \in TaskIds : (t \in returned) ~> Terminal(t)

\* Every task was enqueued and is terminal, and one of the worker loops
\* ended with an exception on the way.
C3_Witness ==
    /\ returned = TaskIds
    /\ \A t \in TaskIds : Terminal(t)
    /\ \E p \in Workers : pc[p] = "raised"

\* C4: in every state each task id has a file in at most one of the four
\* state directories.
C4_OneDirectory ==
    \A t \in TaskIds : Cardinality({d \in StateDirs : Exists(d, t)}) <= 1

\* C5: once start_task has returned an id, some state directory holds a
\* file for it in every later state, also after a process was killed.
C5_NeverAbsent ==
    \A t \in returned : \E d \in StateDirs : Exists(d, t)

\* A worker killed between the two renames of a write of an enqueued task.
C5_Witness ==
    \E p \in Workers :
        /\ pc[p] = "crashed"
        /\ crashed_at[p] = "wt_rename_move"
        /\ task[p].id \in returned

\* C6: a read_task for an id start_task had returned never ends with the
\* not-found ValueError, whatever the workers do between its probes.
C6_ReadFindsEnqueued ==
    pc[Poller] = "poll_raised" => ~poll_known

\* The poller's probe of waiting missed the file of an enqueued task and a
\* worker has since renamed a file of that task into waiting.
C6_Witness ==
    /\ pc[Poller] = "poll_read"
    /\ probe[Poller] = 2
    /\ poll_known
    /\ Exists("waiting", poll_id)

\* C7: when a worker is killed after write_task wrote the scratch file and
\* before its last rename, during the start, complete or fail transition,
\* the next read_task returns a record in the state before or after that
\* transition.
C7_CrashLeavesPreOrPost ==
    [][\A p \in Workers :
          (/\ pc[p] \in WriteWindow
           /\ phase[p] \in {"start", "terminal"}
           /\ pc'[p] = "crashed")
          => LET pre == IF phase[p] = "start" THEN "waiting" ELSE "in_progress"
             IN  (ReadTask(task[p].id).state)' \in {pre, task[p].state}]_vars

\* C8: a task whose only claimant was killed before a terminal state was
\* recorded stays in in_progress: no later step claims it, runs its handler
\* or changes any of its files.
C8_OrphanStaysInProgress ==
    [][\A p \in Workers :
          (/\ pc[p] = "crashed"
           /\ crashed_at[p] \in HoldingPcs
           /\ claimed[this_task_id[p]] = {p})
          => LET t == this_task_id[p]
             IN  /\ claimed'[t] = claimed[t]
                 /\ invoked'[t] = invoked[t]
                 /\ Exists("in_progress", t)'
                 /\ \A d \in StateDirs :
                       /\ Exists(d, t)' <=> Exists(d, t)
                       /\ Exists(d, t) => fs'[d][t] = fs[d][t]]_vars

\* C9: no process_single_task call raises.
C9_NoWorkerRaises ==
    \A p \in Workers : pc[p] # "raised"

\* C10: once a task's file is in completed or failed, no step moves or
\* rewrites it, claims the task or runs its handler.
C10_TerminalIsFinal ==
    [][\A t \in TaskIds : \A d \in {"completed", "failed"} :
          Exists(d, t) =>
              /\ Exists(d, t)'
              /\ fs'[d][t] = fs[d][t]
              /\ claimed'[t] = claimed[t]
              /\ invoked'[t] = invoked[t]]_vars

\* A failed task whose handler ran once, while a worker runs the handler
\* of another task.
C10_Witness ==
    \E t \in TaskIds :
        /\ Exists("failed", t)
        /\ invoked[t] = 1
        /\ \E p \in Workers : pc[p] = "handler" /\ task[p].id # t

\* fs_queue.py:33-59, the life of a task: waiting, then in_progress, then
\* completed or failed.
Rank(state) ==
    IF state = "waiting" THEN 1 ELSE IF state = "in_progress" THEN 2 ELSE 3

Precedes(s1, s2) == Rank(s1) < Rank(s2)

\* C11: of two successive read_task calls for one id, the later one never
\* returns a state that precedes the state the earlier one returned: the
\* results move from waiting to in_progress to one of completed and failed.
C11_ReadsMoveForward ==
    (pc[Poller] = "poll_returned" /\ poll_seen # "none")
        => /\ ~Precedes(poll_result.state, poll_seen)
           /\ (Rank(poll_seen) = 3 => poll_result.state = poll_seen)

\* A read that returned in_progress out of the waiting directory, between the
\* two renames of a worker's write, after a read that returned waiting.
C11_Witness ==
    /\ pc[Poller] = "poll_returned"
    /\ poll_seen = "waiting"
    /\ poll_result.state = "in_progress"
    /\ Exists("waiting", poll_id)
    /\ Exists("in_progress", poll_id)

\* C12: in every state the state of the record read_task returns for a task
\* is the name of the state directory that holds the task's file, right
\* after the claim rename and between the two renames of the terminal write
\* as well.
C12_StateIsDirectory ==
    \A t \in TaskIds : \A d \in StateDirs :
        Exists(d, t) => ReadTask(t).state = d

\* fs_queue.py:158-177 and 209-256: no start_task or process_single_task
\* call is under way: each has returned or raised.
NoCallInFlight ==
    \A p \in Workers \cup {Enqueuer} : pc[p] \in {"idle", "raised"}

\* C13: whenever every start_task and process_single_task call made so far
\* has returned or raised, the state field of every record in a state
\* directory is the name of that directory.
C13_QuiescentAgreement ==
    NoCallInFlight =>
        \A d \in StateDirs : \A t \in DOMAIN fs[d] : fs[d][t].text.state = d

\* No call is under way, one worker's call raised on the way, and the store
\* holds a waiting task and a terminal task.
C13_Witness ==
    /\ NoCallInFlight
    /\ \E p \in Workers : pc[p] = "raised"
    /\ \E t \in TaskIds : Exists("waiting", t)
    /\ \E t \in TaskIds : Terminal(t)

Finishing(p, t) == Holds(p, t) /\ phase[p] = "terminal"

LastEvent(r) == r.events[Len(r.events)]

\* C15: when the handler of a task raised an exception with message m and
\* the process_single_task call has ended, the task's file is in failed and
\* the last event of the record read_task returns has m in its description.
C15_FailureRecorded ==
    \A t \in TaskIds :
        (outcome[t] \in Messages /\ ~\E p \in Workers : Finishing(p, t))
            => /\ Exists("failed", t)
               /\ ReadTask(t).state = "failed"
               /\ \E i \in 1..Len(LastEvent(ReadTask(t))) :
                     LastEvent(ReadTask(t))[i] = outcome[t]

\* A task two workers claimed, whose handler raised and whose worker is idle
\* again.
C15_Witness ==
    \E t \in TaskIds :
        /\ outcome[t] \in Messages
        /\ Cardinality(claimed[t]) = 2
        /\ Exists("failed", t)
        /\ \E p \in claimed[t] : pc[p] = "idle"

\* C16: a task is in failed only if its handler raised and in completed only
\* if its handler returned; and once the call that ran the handler has
\* ended, the task is in failed if the handler raised and in completed if
\* it returned.
C16_OutcomeDecidesState ==
    \A t \in TaskIds :
        /\ Exists("failed", t) => outcome[t] \in Messages
        /\ Exists("completed", t) => outcome[t] = "returned"
        /\ (outcome[t] # "none" /\ ~\E p \in Workers : Finishing(p, t))
              => IF outcome[t] = "returned"
                 THEN Exists("completed", t) /\ ~Exists("failed", t)
                 ELSE Exists("failed", t) /\ ~Exists("completed", t)

\* One task's handler raised, the other's returned, and both calls ended.
C16_Witness ==
    \E t, u \in TaskIds :
        /\ outcome[t] \in Messages
        /\ outcome[u] = "returned"
        /\ Exists("failed", t)
        /\ Exists("completed", u)
        /\ \A p \in Workers : pc[p] \in {"idle", "sleep", "raised"}

\* The files named after task u, directory by directory (NoTask: no file).
FilesOf(u) ==
    [d \in directories |-> IF Exists(d, u) THEN fs[d][u] ELSE [text |-> NoTask, mtime |-> 0]]

\* C17: a handler that raises is isolated: the steps of the worker's
\* process_single_task call, the failing handler call and the write after it
\* included, never end the call with an exception and leave every file of
\* every other task as it was.
C17_FailureIsolated ==
    [][\A p \in Workers :
          (WorkerStep(p) \/ WriteStep(p))
          => /\ \A u \in TaskIds \ {this_task_id[p]} : FilesOf(u)' = FilesOf(u)
             /\ (pc[p] = "handler" \/ (phase[p] = "terminal" /\ task[p].state = "failed"))
                   => pc'[p] # "raised"]_vars

\* A worker is idle again after the handler of its task raised, and the
\* other task is waiting, never claimed.
C17_Witness ==
    \E t, u \in TaskIds :
        /\ t # u
        /\ outcome[t] \in Messages
        /\ Exists("failed", t)
        /\ claimed[u] = {}
        /\ Exists("waiting", u)
        /\ \A p \in Workers : pc[p] = "idle"

\* C18: in the state start_task(payload) returns in, before any other step,
\* the task's file is in waiting and read_task returns the record with state
\* waiting, the single event "Task created" and data equal to payload.
C18_ReadAfterStart ==
    [][(/\ pc[Enqueuer] = "wt_rename_out"
        /\ phase[Enqueuer] = "create"
        /\ pc'[Enqueuer] = "idle")
       => \A id \in TaskIds : \A payload \in Payloads :
             (id = task[Enqueuer].id /\ payload = task[Enqueuer].data)
             => /\ Exists("waiting", id)'
                /\ ReadTask(id)' = [id |-> id, events |-> << TaskCreated >>,
                                    state |-> "waiting", data |-> payload]]_vars

\* C19: a process_single_task call that finds the waiting directory empty
\* sleeps and returns: it does not raise, runs no handler and leaves the five
\* directories as they are, every time it is made.
C19_EmptyClaimHarmless ==
    [][\A p \in Workers :
          /\ (DOMAIN fs["waiting"] = {} /\ ListWaiting(p))
                => pc'[p] = "sleep" /\ fs' = fs /\ invoked' = invoked
          /\ (pc[p] = "sleep" /\ (WorkerStep(p) \/ WriteStep(p)))
                => pc'[p] = "idle" /\ fs' = fs /\ invoked' = invoked]_vars

\* A worker's call found waiting empty after every task reached a terminal
\* state, not for the first time.
C19_Witness ==
    \E p \in Workers :
        /\ pc[p] = "sleep"
        /\ DOMAIN fs["waiting"] = {}
        /\ \A t \in TaskIds : Terminal(t)

\* The sequence s begins with the sequence r.
IsPrefix(r, s) ==
    /\ Len(r) <= Len(s)
    /\ \A i \in 1..Len(r) : s[i] = r[i]

\* C20: the event list of a task only grows at its end: whenever a step puts
\* a record into a state directory, by a rename onto a file or into an empty
\* place, the event list of every record the task had in the state
\* directories before the step is a prefix of the new record's event list.
C20_EventsAppendOnly ==
    [][\A t \in TaskIds : \A d, e \in StateDirs :
          (/\ Exists(d, t)'
           /\ Exists(e, t)
           /\ (~Exists(d, t) \/ fs'[d][t] # fs[d][t]))
          => IsPrefix(fs[e][t].text.events, fs'[d][t].text.events)]_vars

\* A completed task whose record has two "Task started" events: two workers
\* rewrote it one after the other.
C20_Witness ==
    \E t \in TaskIds :
        /\ Exists("completed", t)
        /\ Len(fs["completed"][t].text.events) = 4

\* C21: in every state, also after a process was killed, every record in a
\* state directory has at least one event and its first event is the
\* creation event "Task created".
C21_FirstEventIsCreation ==
    \A d \in StateDirs : \A t \in DOMAIN fs[d] :
        /\ Len(fs[d][t].text.events) >= 1
        /\ fs[d][t].text.events[1] = TaskCreated

\* A failed task whose record was rewritten twice, while the worker of
\* another task was killed during its write.
C21_Witness ==
    \E t \in TaskIds : \E p \in Workers :
        /\ Exists("failed", t)
        /\ Len(fs["failed"][t].text.events) >= 3
        /\ pc[p] = "crashed"
        /\ crashed_at[p] \in WriteWindow
        /\ this_task_id[p] # t

\* C22: a read_task call mutates nothing: each of its steps, whether the call
\* goes on to return a record or to raise, leaves every file of the five
\* directories as it is, and leaves the position, the locals and the
\* exception of every other process as they are, so that a claim or a write
\* under way meets the filesystem it would have met without the read.
C22_ReadMutatesNothing ==
    [][PollStep
       => /\ fs' = fs
          /\ clock' = clock
          /\ \A p \in Workers \cup {Enqueuer} :
                /\ pc'[p] = pc[p]
                /\ err'[p] = err[p]
                /\ task'[p] = task[p]
                /\ prior_task'[p] = prior_task[p]
                /\ this_task_id'[p] = this_task_id[p]
                /\ probe'[p] = probe[p]]_vars

\* A read returned a record whose state is not the directory it lies in,
\* while the worker that holds the task is between the renames of a write.
C22_Witness ==
    /\ pc[Poller] = "poll_returned"
    /\ \E p \in Workers :
          /\ pc[p] = "wt_rename_move"
          /\ task[p].id = poll_id
          /\ \E d \in StateDirs : Exists(d, poll_id) /\ poll_result.state # d

\* The id has no file in any of the four state directories.
Unknown(task_id) == \A d \in StateDirs : ~Exists(d, task_id)

\* C23: while an id has no file in any state directory, no probe of a
\* read_task call for it returns a record or changes a file, and the probe of
\* the last directory ends the call with the not-found ValueError; a file
\* of that id in tmp makes no difference.
C23_UnknownIdNotFound ==
    [][\A p \in Procs :
          (PollRead(p) /\ Unknown(poll_id))
          => /\ fs' = fs
             /\ poll_result' = NoTask
             /\ pc'[p] = IF probe[p] >= Len(ReadOrder) THEN "poll_raised" ELSE "poll_read"]_vars

\* A read_task call ended with ValueError for an id whose record is written
\* in tmp and in no state directory.
C23_Witness ==
    /\ pc[Poller] = "poll_raised"
    /\ Unknown(poll_id)
    /\ Exists("tmp", poll_id)
    /\ fs["tmp"][poll_id].text # NoTask

\* C24: in every state, also after a process was killed between the open,
\* the write and the renames of write_task, every file in a state directory
\* holds a complete record: the file a writer has created and not yet
\* written is in tmp only.
C24_NoPartialRecord ==
    \A d \in StateDirs : \A t \in DOMAIN fs[d] :
        /\ fs[d][t].text # NoTask
        /\ fs[d][t].text.id = t
        /\ fs[d][t].text.state \in StateDirs

\* A worker was killed after it created the scratch file of a task and before
\* it wrote the record; the task's file in in_progress is complete.
C24_Witness ==
    \E p \in Workers :
        /\ pc[p] = "crashed"
        /\ crashed_at[p] = "wt_write"
        /\ Exists("tmp", task[p].id)
        /\ fs["tmp"][task[p].id].text = NoTask
        /\ Exists("in_progress", task[p].id)

\* C25: when a write_task call that found the record in another state than
\* the one it writes returns, the task's file is in the directory of the new
\* state and in no other state directory.
C25_MovedNotCopied ==
    [][\A p \in Workers : \A id \in TaskIds : \A d \in StateDirs :
          (/\ pc[p] = "wt_rename_move"
           /\ WtRenameMove(p)
           /\ pc'[p] # "raised"
           /\ id = task[p].id
           /\ d = task[p].state)
          => /\ Exists(d, id)'
             /\ \A e \in StateDirs \ {d} : ~Exists(e, id)']_vars

\* A worker's "Task started" write has returned: its task is in in_progress
\* only, while the other task has a file in waiting and in in_progress.
C25_Witness ==
    \E p \in Workers : \E u \in TaskIds :
        /\ pc[p] = "handler"
        /\ u # task[p].id
        /\ Exists("in_progress", task[p].id)
        /\ ~Exists("waiting", task[p].id)
        /\ Exists("waiting", u)
        /\ Exists("in_progress", u)

\* C26: start_task draws an id that names no file and no record of another
\* call; no step of the call changes a file of another task; and the call
\* returns by putting the one file of its id into waiting, where no state
\* directory had a file of that id before, also while other processes
\* enqueue and work.
C26_StartCreatesOneFile ==
    [][\A p \in Procs : \A id \in TaskIds :
          /\ (phase[p] = "none" /\ phase'[p] = "create" /\ id = task'[p].id)
                => /\ \A d \in directories : ~Exists(d, id)
                   /\ \A q \in Procs \ {p} : task[q].id # id
          /\ (phase[p] = "create" /\ WriteStep(p) /\ id = task[p].id)
                => /\ \A u \in TaskIds \ {id} : FilesOf(u)' = FilesOf(u)
                   /\ Unknown(id)
                   /\ pc'[p] # "raised"
                   /\ IF pc'[p] = "idle"
                      THEN /\ Exists("waiting", id)'
                           /\ \A d \in StateDirs \ {"waiting"} : ~Exists(d, id)'
                      ELSE Unknown(id)']_vars

\* A start_task call has returned; another one, made by a worker process, is
\* before its rename, and a worker is between the renames of a write.
C26_Witness ==
    \E p, w \in Workers :
        /\ returned # {}
        /\ phase[p] = "create"
        /\ pc[p] = "wt_rename_out"
        /\ pc[w] = "wt_rename_move"

\* C27: in every state, the data of the record read from any file of a task
\* in a state directory, and the data of the record a worker holds for its
\* handler, equal the task_input start_task was called with.
C27_PayloadOpaque ==
    /\ \A d \in StateDirs : \A t \in DOMAIN fs[d] :
          JsonLoad(fs[d][t].text).data = task_inputs[t]
    /\ \A p \in Workers : pc[p] = "handler" => task[p].data = task_inputs[task[p].id]

\* C28: constructing a queue on a base_dir that holds the five directories and
\* task files succeeds and leaves every file in its directory with its
\* content, whatever the other processes are doing at that moment.
C28_InitIdempotent ==
    [][\A p \in Procs :
          Construct(p)
          => /\ fs' = fs
             /\ pc' = pc
             /\ err' = err]_vars

\* The third queue object was constructed on a base_dir with a task in a
\* terminal directory and a task with files in waiting and in in_progress.
C28_Witness ==
    /\ constructed = MaxQueues
    /\ \E t, u \in TaskIds :
          /\ Terminal(t)
          /\ Exists("waiting", u)
          /\ Exists("in_progress", u)

\* C29: the record of a task in a terminal directory has exactly three
\* events: "Task created", "Task started" and the event of the result, in
\* that order, with any number of workers.
C29_ThreeEvents ==
    \A d \in {"completed", "failed"} : \A t \in DOMAIN fs[d] :
        LET events == fs[d][t].text.events
        IN  /\ Len(events) = 3
            /\ events[1] = TaskCreated
            /\ events[2] = TaskStarted
            /\ events[3] \in {TaskCompleted} \cup {TaskFailed(m) : m \in Messages}

\* C30: when _next_available_task has returned, either it returned an id it
\* saw in waiting whose modification time is the least of those it read, or
\* it read no modification time and returned None, which sends
\* process_single_task to sleep.
C30_NextIsOldestSeen ==
    \A p \in Workers :
        /\ pc[p] = "claim"
              => \E i \in 1..Len(candidates[p]) :
                    /\ candidates[p][i][1] = this_task_id[p]
                    /\ \A j \in 1..Len(candidates[p]) :
                          candidates[p][i][2] <= candidates[p][j][2]
        /\ pc[p] = "sleep" => candidates[p] = << >> /\ this_task_id[p] = 0

\* A worker read the modification times of two waiting files and chose the
\* one it read second, which is strictly older.
C30_Witness ==
    \E p \in Workers :
        /\ pc[p] = "claim"
        /\ Len(candidates[p]) = 2
        /\ candidates[p][2][1] = this_task_id[p]
        /\ candidates[p][2][2] < candidates[p][1][2]

\* C31: listing waiting tolerates concurrent claims: when a listed file has
\* left waiting before _next_available_task looks up its modification time,
\* the call does not raise, changes no file and skips the entry; after the
\* last entry it answers from the entries it did read, and with None, which
\* sends process_single_task to sleep, when none remain.
C31_ListingToleratesClaims ==
    [][\A p \in Workers : \A filename \in TaskIds :
          (/\ GetMTime(p)
           /\ filename \in listing[p]
           /\ filename \notin listing'[p]
           /\ ~Exists("waiting", filename))
          => /\ pc'[p] # "raised"
             /\ fs' = fs
             /\ candidates'[p] = candidates[p]
             /\ IF listing'[p] # {}
                THEN pc'[p] = "getmtime"
                ELSE IF candidates[p] = << >>
                THEN pc'[p] = "sleep" /\ this_task_id'[p] = 0
                ELSE /\ pc'[p] = "claim"
                     /\ this_task_id'[p] # filename
                     /\ \E i \in 1..Len(candidates[p]) :
                           candidates[p][i][1] = this_task_id'[p]]_vars

\* A worker listed two files and read the modification time of one; the
\* other worker has moved the entry it visits last out of waiting.
C31_Witness ==
    \E p \in Workers : \E filename \in TaskIds :
        /\ pc[p] = "getmtime"
        /\ listing[p] = {filename}
        /\ Len(candidates[p]) = 1
        /\ ~Exists("waiting", filename)
        /\ Exists("in_progress", filename)

\* C32: a worker whose waiting->in_progress rename meets no file returns from
\* process_single_task with that step: the steps of the call, the listing
\* and the lookups before it included, change no file in any directory, run
\* no handler, record no claim and raise nothing, and the call ends without
\* sleeping.
C32_LostClaimReturns ==
    [][\A p \in Workers :
          /\ (pc[p] \in {"idle", "getmtime", "claim"} /\ WorkerStep(p) /\ pc'[p] # "read_claimed")
                => fs' = fs /\ invoked' = invoked /\ claimed' = claimed
          /\ (pc[p] = "claim" /\ WorkerStep(p) /\ ~Exists("waiting", this_task_id[p]))
                => /\ pc'[p] = "idle"
                   /\ err'[p] = "none"
                   /\ task'[p] = NoTask
                   /\ this_task_id'[p] = 0
                   /\ fs' = fs
                   /\ invoked' = invoked
                   /\ claimed' = claimed]_vars

\* A worker is about to rename a file the other worker has claimed and
\* still holds.
C32_Witness ==
    \E p, q \in Workers :
        /\ p # q
        /\ pc[p] = "claim"
        /\ ~Exists("waiting", this_task_id[p])
        /\ Holds(q, this_task_id[p])
        /\ claimed[this_task_id[p]] = {q}

\* The record r carries an event of a result: completed or failed.
HasTerminalEvent(r) ==
    \E i \in 1..Len(r.events) :
        r.events[i] \in {TaskCompleted} \cup {TaskFailed(m) : m \in Messages}

HasStartEvent(r) == \E i \in 1..Len(r.events) : r.events[i] = TaskStarted

\* C33: the handler runs only on a durably started task: when a worker is
\* about to invoke process_individual_task for a task, the task's file is in
\* in_progress and its record has state in_progress and the "Task started"
\* event; and a record with a terminal event is written to a file, the
\* scratch file included, only after the task's handler has returned or
\* raised.
C33_HandlerAfterStart ==
    /\ \A p \in Workers :
          pc[p] = "handler"
          => /\ Exists("in_progress", task[p].id)
             /\ fs["in_progress"][task[p].id].text.state = "in_progress"
             /\ HasStartEvent(fs["in_progress"][task[p].id].text)
             /\ ~HasTerminalEvent(fs["in_progress"][task[p].id].text)
    /\ \A d \in directories : \A t \in DOMAIN fs[d] :
          (fs[d][t].text # NoTask /\ HasTerminalEvent(fs[d][t].text))
          => outcome[t] # "none" /\ invoked[t] >= 1

\* A worker is about to run the handler of a task that a second worker had
\* claimed during the first claimant's "Task started" write.
C33_Witness ==
    \E p \in Workers : \E t \in TaskIds :
        /\ pc[p] = "handler"
        /\ task[p].id = t
        /\ Cardinality(claimed[t]) = 2
        /\ invoked[t] = 0

\* C34: no update is lost: whenever a step puts a record version into a state
\* directory, every version of the task that was in a state directory
\* immediately before the step is the new version itself or the version it
\* was built from by appending one event: same id, same data, the old
\* events as a prefix and at most one event more.  So no version written by
\* another worker is replaced by one that does not contain it.
C34_NoLostUpdate ==
    [][\A t \in TaskIds : \A d, e \in StateDirs :
          (/\ Exists(d, t)'
           /\ Exists(e, t)
           /\ (~Exists(d, t) \/ fs'[d][t] # fs[d][t]))
          => LET old == fs[e][t].text
                 new == fs'[d][t].text
             IN  /\ new.id = old.id
                 /\ new.data = old.data
                 /\ IsPrefix(old.events, new.events)
                 /\ Len(new.events) <= Len(old.events) + 1
                 /\ Len(new.events) = Len(old.events) => new = old]_vars

\* The record in in_progress is the third version of its task: the second
\* claimant built it from the version the first claimant had written.
C34_Witness ==
    \E t \in TaskIds :
        /\ Exists("in_progress", t)
        /\ Cardinality(claimed[t]) = 2
        /\ fs["in_progress"][t].text.events = << TaskCreated, TaskStarted, TaskStarted >>

\* C35: whenever two state directories hold a file of one id, between the
\* two renames of a state-changing write or after the writer was killed
\* there, the two files were written at different times and a read_task
\* call made in that state returns the record of the one written last: its
\* first open, of the file in waiting, finds that record.
C35_ReadReturnsNewest ==
    \A t \in TaskIds : \A d, e \in StateDirs :
        (d # e /\ Exists(d, t) /\ Exists(e, t))
        => /\ fs[d][t].mtime # fs[e][t].mtime
           /\ \E n \in StateDirs :
                 /\ Exists(n, t)
                 /\ \A o \in StateDirs : Exists(o, t) => fs[o][t].mtime <= fs[n][t].mtime
                 /\ ReadProbe(t, 1) = ValidateTask(JsonLoad(fs[n][t].text))
                 /\ ReadTask(t) = ReadProbe(t, 1)

\* A worker was killed between the two renames of its "Task started" write:
\* waiting holds the new record, in_progress the one it replaces.
C35_Witness ==
    \E p \in Workers :
        /\ pc[p] = "crashed"
        /\ crashed_at[p] = "wt_rename_move"
        /\ Exists("waiting", task[p].id)
        /\ Exists("in_progress", task[p].id)
        /\ fs["waiting"][task[p].id].text.state = "in_progress"
        /\ fs["in_progress"][task[p].id].text.state = "waiting"

\* C36: the scratch file is created exclusively: when tmp holds a file named
\* by the task id as write_task opens its scratch file, the call ends with
\* FileExistsError at that step, having renamed nothing: the four state
\* directories, and the file in tmp, are as they were.
C36_ScratchExclusive ==
    [][\A p \in Procs :
          (pc[p] = "wt_open" /\ Exists("tmp", task[p].id) /\ WriteStep(p))
          => /\ pc'[p] = "raised"
             /\ err'[p] = "FileExistsError"
             /\ fs' = fs]_vars

\* A worker's write_task ended with FileExistsError on the scratch file a
\* killed worker had left for the same task; the task's record in
\* in_progress still has no "Task started" event.
C36_Witness ==
    \E p, q \in Workers :
        /\ pc[p] = "raised"
        /\ err[p] = "FileExistsError"
        /\ pc[q] = "crashed"
        /\ this_task_id[q] = this_task_id[p]
        /\ Exists("tmp", this_task_id[p])
        /\ Exists("in_progress", this_task_id[p])
        /\ ~HasStartEvent(fs["in_progress"][this_task_id[p]].text)

\* fs_queue.py:122-137: the steps of write_task between the creation of the
\* scratch file and the rename that takes it out of tmp.
ScratchPcs == {"wt_write", "wt_read", "wt_rename_prior", "wt_rename_out"}

\* C37: without process kills, tmp is empty whenever no write_task call is
\* between the creation of its scratch file and the rename that takes it out
\* of tmp; a write_task call that returns has left no file of its task in
\* tmp; and a file appears or changes in tmp only by its writer's open and
\* write, which leave the state directories as they are: no file of a state
\* directory is moved into tmp.
C37_TmpEmptyAtRest ==
    [][/\ (\A p \in Procs : pc'[p] \notin ScratchPcs) => DOMAIN fs'["tmp"] = {}
       /\ \A t \in DOMAIN fs'["tmp"] :
             (t \notin DOMAIN fs["tmp"] \/ fs'["tmp"][t] # fs["tmp"][t])
             => /\ \E p \in Procs : pc[p] \in {"wt_open", "wt_write"} /\ task[p].id = t
                /\ \A d \in StateDirs : fs'[d] = fs[d]
       /\ \A p \in Procs : \A id \in TaskIds :
             (/\ pc[p] \in {"wt_rename_move", "wt_rename_out"}
              /\ id = task[p].id
              /\ pc'[p] \in {"idle", "handler"})
             => ~Exists("tmp", id)']_vars

\* No call is under way and tmp is empty, after a worker's write raised
\* between its two renames and both tasks reached a terminal directory.
C37_Witness ==
    /\ NoCallInFlight
    /\ DOMAIN fs["tmp"] = {}
    /\ \E p \in Workers : pc[p] = "raised" /\ err[p] = "FileNotFoundError"
    /\ \A t \in TaskIds : Terminal(t)

\* The names of the entries of a candidates list.
CandidateNames(cs) == {cs[i][1] : i \in 1..Len(cs)}

\* C38: with a single worker loop and concurrent enqueuers the queue is an
\* abstract FIFO queue: a task whose start_task call returned before the
\* start_task call of another task began is taken by the worker before
\* that other task.
C38_SingleWorkerFifo ==
    [][\A a, b \in TaskIds :
          (a \in preceding[b] /\ claimed[b] = {} /\ claimed'[b] # {})
          => claimed[a] # {}]_vars

\* C38, amended: with a single worker loop and concurrent enqueuers, no
\* process_single_task call raises; a call that lists waiting empty sleeps;
\* any other call reads the modification time of every file it listed,
\* claims one of those with the least modification time, runs its handler
\* once and returns with the task's file in one terminal directory and
\* nowhere else, having changed no file of another task.
C38_SingleWorkerQueue ==
    [][LET w == TheWorker
       IN  /\ pc'[w] # "raised"
           /\ ListWaiting(w)
                 => /\ listing'[w] = DOMAIN fs["waiting"]
                    /\ pc'[w] = IF DOMAIN fs["waiting"] = {} THEN "sleep" ELSE "getmtime"
           /\ GetMTime(w)
                 => /\ Len(candidates'[w]) = Len(candidates[w]) + 1
                    /\ CandidateNames(candidates'[w]) \cup listing'[w]
                          = CandidateNames(candidates[w]) \cup listing[w]
                    /\ pc'[w] = IF listing'[w] = {} THEN "claim" ELSE "getmtime"
           /\ pc'[w] = "claim"
                 => /\ listing'[w] = {}
                    /\ \A i \in 1..Len(candidates'[w]) :
                          /\ candidates'[w][i][1] \in DOMAIN fs'["waiting"]
                          /\ fs'["waiting"][candidates'[w][i][1]].mtime = candidates'[w][i][2]
                          /\ fs'["waiting"][this_task_id'[w]].mtime <= candidates'[w][i][2]
                    /\ this_task_id'[w] \in CandidateNames(candidates'[w])
           /\ (pc[w] = "claim" /\ WorkerStep(w))
                 => pc'[w] = "read_claimed" /\ Exists("in_progress", this_task_id[w])'
           /\ \A t \in TaskIds :
                 (Holds(w, t) /\ (WorkerStep(w) \/ WriteStep(w)))
                 => /\ \A u \in TaskIds \ {t} : FilesOf(u)' = FilesOf(u)
                    /\ pc'[w] = "idle"
                          => /\ Cardinality({d \in StateDirs : Exists(d, t)'}) = 1
                             /\ Terminal(t)'
                             /\ ~Exists("tmp", t)'
                             /\ invoked'[t] = 1
                             /\ claimed'[t] = {w}]_vars

\* The worker has taken the older of two tasks to a terminal directory and
\* holds the other one, which an enqueuer put into waiting during the first
\* call.
C38_Witness ==
    \E t, u \in TaskIds :
        /\ Terminal(t)
        /\ fs[IF Exists("completed", t) THEN "completed" ELSE "failed"][t].text.events[2] = TaskStarted
        /\ claimed[t] = {TheWorker}
        /\ pc[TheWorker] = "handler"
        /\ this_task_id[TheWorker] = u
        /\ u # t
        /\ \A p \in Procs : pc[p] # "raised"

====
